---- MODULE Spec2Model ----
(***************************************************************************)
(* Cart-to-order fulfilment core of the organic e-commerce backend:        *)
(* the cart controller (src/unnamed/part_006), the order controller and    *)
(* Order schema (src/unnamed/part_008), the Cart and Product schemas       *)
(* (src/models) and the order validation (src/utils/validation.js).        *)
(*                                                                         *)
(* Every Express handler is an async function.  Node runs it without       *)
(* interruption between two awaits, so a handler is modelled as a chain of *)
(* atomic segments; each segment ends where the code awaits a database     *)
(* call and the next one starts with the result of that call.  A request   *)
(* in flight is a record (its request, its position pc, its locals).       *)
(* Optional JavaScript values are sequences of length at most one:         *)
(* <<>> is undefined/null, <<v>> is the value v.                           *)
(***************************************************************************)
EXTENDS Integers, Sequences, FiniteSets, TLC

VARIABLES
  products,   \* Product collection: _id -> [name, price, stock]
  carts,      \* Cart collection in insertion order: <<[userId, isGuest, items]>>
  orders,     \* Order collection in insertion order
  inflight,   \* slot -> the request being served there (pc = "idle" when none)
  last,       \* the request that completed most recently, with its response
  initStock,  \* stock of every product when the system started
  now,        \* the clock Date.now() reads
  users       \* User collection: _id -> [role]

vars == <<products, carts, orders, inflight, last, initStock, now, users>>

----------------------------------------------------------------------------
(* Bounds of the model *)

MaxStock == 2      \* largest initial stock of a product
MaxQty == 2        \* largest quantity a request carries
MaxLines == 2      \* most lines in one createOrder request
MaxOrders == 1     \* createOrder requests are accepted while fewer orders exist
MaxCartQty == 2    \* guest add requests are accepted while the line is below this
MaxNow == 2        \* the clock stops here
MaxReceipts == 2   \* orders whose immutability is followed

ProductIds == {"p1", "p2"}        \* _ids of stored products
ExternalIds == {"x1"}             \* references that resolve to no stored product
Refs == ProductIds \cup ExternalIds
UserIds == {"u1"}                 \* the users who shop (req.user._id)
OtherUserIds == {"u2"}            \* users who place no order
AdminIds == {"admin"}             \* users whose role is admin
SessionIds == {"g1"}              \* guest session ids
Identities == UserIds \cup SessionIds
Slots == {1, 2}

----------------------------------------------------------------------------
(* JavaScript helpers *)

\* a || b on strings: the empty string is falsy
StrOr(a, b) == IF a # "" THEN a ELSE b

\* a || b on numbers: 0 is falsy
NumOr(a, b) == IF a # 0 THEN a ELSE b

\* a || b on optional objects and arrays: only undefined is falsy, [] is truthy
OptOr(a, b) == IF a # <<>> THEN a ELSE b

RECURSIVE SumSeq(_)
SumSeq(s) == IF s = <<>> THEN 0 ELSE Head(s) + SumSeq(Tail(s))

\* items.filter(item => item.productId.toString() !== productId)
RECURSIVE filterOut(_, _)
filterOut(items, productId) ==
  IF items = <<>> THEN <<>>
  ELSE IF Head(items).productId # productId
  THEN <<Head(items)>> \o filterOut(Tail(items), productId)
  ELSE filterOut(Tail(items), productId)

----------------------------------------------------------------------------
(* The database *)

DB ==
  [products |-> products, carts |-> carts, orders |-> orders, now |-> now,
   users |-> users]

\* Product.findById: <<the document>> or <<>> (null, or a CastError caught by
\* createOrder for a reference that is no ObjectId)
findById(db, productId) ==
  IF productId \in DOMAIN db.products THEN <<db.products[productId]>> ELSE <<>>

\* a lookup that takes the first cart of the collection, whoever owns it
findOne_AnyCart(db, userId) == IF db.carts = <<>> THEN 0 ELSE 1

\* Cart.findOne({ userId }): position of the first cart of that identity, 0 if none
findOne(db, userId) ==
  LET hits == {k \in 1..Len(db.carts) : db.carts[k].userId = userId}
  IN IF hits = {} THEN 0 ELSE CHOOSE k \in hits : \A j \in hits : k <= j

\* a lookup that compares the first line only
findIndex_FirstOnly(items, productId) ==
  IF items # <<>> /\ items[1].productId = productId THEN 1 ELSE 0

\* cart.items.findIndex(item => item.productId.toString() === productId), 1-based
findIndex(items, productId) ==
  LET hits == {k \in 1..Len(items) : items[k].productId = productId}
  IN IF hits = {} THEN 0 ELSE CHOOSE k \in hits : \A j \in hits : k <= j

----------------------------------------------------------------------------
(* Requests and responses *)

\* A request is a record: the handler (op), the identity the middleware
\* resolved (userId: req.user._id, or the body's sessionId on a guest route)
\* and the body/params fields the handler reads.  A missing string is "", a
\* missing number 0, a missing object or array <<>>.

NoAddress == [address |-> "", street |-> "", city |-> "", state |-> "",
              pincode |-> "", zipCode |-> ""]

\* a slot serving no request
Idle == [pc |-> "idle", cartIdx |-> 0]

\* a request arrives: the locals of its handler
Accept(req) ==
  [req |-> req, pc |-> "start", i |-> 0, orderItems |-> <<>>,
   normalizedAddress |-> <<>>, normalizedProducts |-> <<>>,
   stock |-> 0, cartIdx |-> 0, write |-> "", itemIndex |-> 0,
   newQuantity |-> 0, newItems |-> <<>>, stale |-> FALSE,
   orderIdx |-> 0, set |-> <<>>, user |-> <<>>, localProducts |-> <<>>,
   calls |-> {}]

\* res.status(status).json(...) or a thrown error reaching the error handler:
\* the request is over, its locals are gone.  data is the body's data field
\* where a claim reads it, <<>> otherwise; calls names the outside calls the
\* search handler made.
Respond(l, status, kind) ==
  [req |-> l.req, pc |-> "done", status |-> status, kind |-> kind, cartIdx |-> 0,
   data |-> <<>>, calls |-> l.calls]

\* res.status(200).json({ success: true, data })
RespondData(l, data) == [Respond(l, 200, "Success") EXCEPT !.data = <<data>>]

\* One atomic segment's outcome: the database after it, the request after it,
\* and the cart whose version key (__v) the segment incremented (0: none)
Out(db, l) == [db |-> db, l |-> l, bumped |-> 0]

----------------------------------------------------------------------------
(* The stock test shared by the handlers *)

\* a stock test that also refuses the last unit
outOfStock_OffByOne(stock, quantity) == stock <= quantity

\* `product.stock < quantity`: createOrder (part_008 line 124), addToCart
\* (part_006 lines 476 and 502), updateCartItem (line 572) and
\* updateGuestCartItem (line 781)
outOfStock(stock, quantity) == stock < quantity

----------------------------------------------------------------------------
(* Order validation, src/utils/validation.js *)

\* a validation that does not ask for the payment method
validateOrder_SkipsPayment(data) ==
  LET orderProducts == OptOr(data.products, data.items)
      addressData == OptOr(data.address, data.shippingAddress)
      e1 == orderProducts = <<>> \/ Len(orderProducts[1]) = 0
      e2 == data.totalAmount <= 0
      e3 == IF addressData = <<>> THEN TRUE
            ELSE LET street == StrOr(addressData[1].street, addressData[1].address)
                     zipCode == StrOr(addressData[1].zipCode, addressData[1].pincode)
                 IN street = "" \/ addressData[1].city = ""
                    \/ addressData[1].state = "" \/ zipCode = ""
  IN [isValid |-> ~(e1 \/ e2 \/ e3)]

validateOrder(data) ==
  LET orderProducts == OptOr(data.products, data.items)
      addressData == OptOr(data.address, data.shippingAddress)
      e1 == orderProducts = <<>> \/ Len(orderProducts[1]) = 0
      e2 == data.totalAmount <= 0
      e3 == IF addressData = <<>> THEN TRUE
            ELSE LET street == StrOr(addressData[1].street, addressData[1].address)
                     zipCode == StrOr(addressData[1].zipCode, addressData[1].pincode)
                 IN street = "" \/ addressData[1].city = ""
                    \/ addressData[1].state = "" \/ zipCode = ""
      e4 == data.paymentMethod = ""
  IN [isValid |-> ~(e1 \/ e2 \/ e3 \/ e4)]

----------------------------------------------------------------------------
(* Order schema, src/unnamed/part_008 lines 384-472 *)

PaymentMethods == {"card", "paypal", "cash", "upi", "netbanking", "cod"}
Statuses == {"pending", "shipped", "delivered", "cancelled"}

\* Mongoose validation of a new Order document
OrderDocValid(doc) ==
  /\ \A k \in 1..Len(doc.products) :
       /\ doc.products[k].productId # ""
       /\ doc.products[k].name # ""
       /\ doc.products[k].quantity >= 1
  /\ doc.totalAmount >= 0
  /\ doc.address.street # "" /\ doc.address.city # ""
  /\ doc.address.state # "" /\ doc.address.zipCode # ""
  /\ doc.paymentMethod \in PaymentMethods
  /\ doc.status \in Statuses

----------------------------------------------------------------------------
(* createOrder, src/unnamed/part_008 lines 9-170 *)

\* validateRequest(validateOrder), then lines 25-95: normalisation and the
\* handler's own checks, up to the first Product.findById
createOrderStart(db, l) ==
  LET r == l.req
      orderItems == OptOr(r.items, r.products)
      orderAddress == OptOr(r.shippingAddress, r.address)
  IN IF ~validateOrder(r).isValid THEN Out(db, Respond(l, 400, "InvalidArgument"))
     ELSE IF orderItems = <<>> \/ Len(orderItems[1]) = 0
       THEN Out(db, Respond(l, 400, "InvalidArgument"))
     ELSE IF r.totalAmount <= 0 THEN Out(db, Respond(l, 400, "InvalidArgument"))
     ELSE IF orderAddress = <<>> THEN Out(db, Respond(l, 400, "InvalidArgument"))
     ELSE LET a == orderAddress[1]
              normalizedAddress ==
                [street |-> StrOr(a.address, a.street), city |-> a.city,
                 state |-> a.state, zipCode |-> StrOr(a.pincode, a.zipCode)]
          IN IF normalizedAddress.street = "" \/ normalizedAddress.city = ""
                \/ normalizedAddress.state = "" \/ normalizedAddress.zipCode = ""
             THEN Out(db, Respond(l, 400, "InvalidArgument"))
             ELSE Out(db, [l EXCEPT !.pc = "findProduct", !.i = 1,
                                    !.orderItems = orderItems[1],
                                    !.normalizedAddress = normalizedAddress])

\* the loop goes on to the next item, or leaves for Order.create
createOrderNext(l) ==
  IF l.i < Len(l.orderItems)
  THEN [l EXCEPT !.pc = "findProduct", !.i = l.i + 1]
  ELSE [l EXCEPT !.pc = "createOrder"]

\* a reservation that forgets the decrement
Reserve_Forgotten(stock, quantity) == stock

\* line 142: product.stock -= item.quantity
Reserve(stock, quantity) == stock - quantity

\* a pass-through that stores the defaults whatever the line declares
passThrough_StoresDefaults(productId, item) ==
  [productId |-> productId, name |-> "Product", quantity |-> item.quantity,
   price |-> 0, image |-> ""]

\* lines 113-121: the order line of an item whose product was not found
passThrough(productId, item) ==
  [productId |-> productId, name |-> StrOr(item.name, "Product"),
   quantity |-> item.quantity, price |-> NumOr(item.price, 0),
   image |-> StrOr(item.image, "")]

\* a refusal that also empties the carts
rejectShortLine_ClearsCarts(db, l) ==
  Out([db EXCEPT !.carts = [k \in 1..Len(db.carts) |->
                             [db.carts[k] EXCEPT !.items = <<>>]]],
      Respond(l, 400, "InsufficientStock"))

\* lines 124-130: the 400 answer for a line that asks more than the stock
rejectShortLine(db, l) == Out(db, Respond(l, 400, "InsufficientStock"))

\* lines 101-142: Product.findById has answered for item i
createOrderFind(db, l) ==
  LET item == l.orderItems[l.i]
      productId == StrOr(item.product, item.productId)
      product == findById(db, productId)
  IN IF product = <<>>
     THEN Out(db, createOrderNext(
            [l EXCEPT !.normalizedProducts =
                        Append(@, passThrough(productId, item))]))
     ELSE IF outOfStock(product[1].stock, item.quantity)
     THEN rejectShortLine(db, l)
     ELSE Out(db, [l EXCEPT !.normalizedProducts = Append(@,
                       [productId |-> productId, name |-> product[1].name,
                        quantity |-> item.quantity,
                        price |-> NumOr(item.price, product[1].price),
                        image |-> product[1].image]),
                     !.stock = Reserve(product[1].stock, item.quantity),
                     !.pc = "saveProduct"])

\* a reservation that decrements the stored stock in place, unvalidated
createOrderSave_Decrements(db, l) ==
  LET item == l.orderItems[l.i]
      productId == StrOr(item.product, item.productId)
  IN IF productId \notin DOMAIN db.products
     THEN Out(db, Respond(l, 500, "DocumentNotFound"))
     ELSE Out([db EXCEPT !.products[productId].stock = @ - item.quantity],
              createOrderNext(l))

\* line 143: product.save() writes the stock computed from the value read
createOrderSave(db, l) ==
  LET item == l.orderItems[l.i]
      productId == StrOr(item.product, item.productId)
  IN IF l.stock < 0 THEN Out(db, Respond(l, 400, "ValidationError"))
     ELSE IF productId \notin DOMAIN db.products
     THEN Out(db, Respond(l, 500, "DocumentNotFound"))
     ELSE Out([db EXCEPT !.products[productId].stock = l.stock], createOrderNext(l))

\* lines 146-153: Order.create
createOrderCreate(db, l) ==
  LET doc == [userId |-> l.req.userId, products |-> l.normalizedProducts,
              totalAmount |-> l.req.totalAmount, address |-> l.normalizedAddress,
              paymentMethod |-> StrOr(l.req.paymentMethod, "card"),
              status |-> "pending", isPaid |-> FALSE, paidAt |-> <<>>,
              isDelivered |-> FALSE, deliveredAt |-> <<>>]
  IN IF ~OrderDocValid(doc) THEN Out(db, Respond(l, 400, "ValidationError"))
     ELSE Out([db EXCEPT !.orders = Append(@, doc)], [l EXCEPT !.pc = "clearCart"])

\* lines 156-169: Cart.findOneAndUpdate({ userId }, { $set: { items: [] } }),
\* then the read-only populate and the 201 response
createOrderClear(db, l) ==
  LET k == findOne(db, l.req.userId)
  IN IF k = 0 THEN Out(db, Respond(l, 201, "Success"))
     ELSE Out([db EXCEPT !.carts[k].items = <<>>], Respond(l, 201, "Success"))

createOrder(db, l) ==
  CASE l.pc = "start" -> createOrderStart(db, l)
    [] l.pc = "findProduct" -> createOrderFind(db, l)
    [] l.pc = "saveProduct" -> createOrderSave(db, l)
    [] l.pc = "createOrder" -> createOrderCreate(db, l)
    [] l.pc = "clearCart" -> createOrderClear(db, l)

----------------------------------------------------------------------------
(* Order status handlers, src/unnamed/part_008 lines 202-331.  An order's   *)
(* _id is its position in the collection: no handler removes an order.      *)

\* Order.findById(req.params.id): the position of the order, 0 when null
findOrderById(db, id) == IF id \in 1..Len(db.orders) THEN id ELSE 0

\* order.save() of a loaded order: the paths the handler assigned are $set
orderSave(db, l) ==
  LET doc == db.orders[l.orderIdx]
      saved == [f \in DOMAIN doc |->
                  IF f \in DOMAIN l.set THEN l.set[f] ELSE doc[f]]
  IN Out([db EXCEPT !.orders[l.orderIdx] = saved], Respond(l, 200, "Success"))

\* a payment that also rewrites the payment method
paidFields_RewritesMethod(at) ==
  [isPaid |-> TRUE, paidAt |-> <<at>>, paymentMethod |-> "paypal"]

\* updateOrderToPaid lines 211-212 (paymentResult, line 213, is no path of the
\* Order schema and is not stored)
paidFields(at) == [isPaid |-> TRUE, paidAt |-> <<at>>]

\* updateOrderToPaid lines 202-226: line 217 reads req.body.payer.email_address
\* and throws a TypeError when the body has no payer
updateOrderToPaid(db, l) ==
  CASE l.pc = "start" -> Out(db, [l EXCEPT !.pc = "findOrder"])
    [] l.pc = "findOrder" ->
         LET k == findOrderById(db, l.req.orderId)
         IN IF k = 0 THEN Out(db, Respond(l, 404, "NotFound"))
            ELSE IF l.req.payer = <<>> THEN Out(db, Respond(l, 500, "TypeError"))
            ELSE Out(db, [l EXCEPT !.pc = "saveOrder", !.orderIdx = k,
                                   !.set = paidFields(db.now)])
    [] l.pc = "saveOrder" -> orderSave(db, l)

\* a delivery that sets the status and nothing else
updateOrderToDelivered_StatusOnly(db, l) ==
  CASE l.pc = "start" -> Out(db, [l EXCEPT !.pc = "findOrder"])
    [] l.pc = "findOrder" ->
         LET k == findOrderById(db, l.req.orderId)
         IN IF k = 0 THEN Out(db, Respond(l, 404, "NotFound"))
            ELSE Out(db, [l EXCEPT !.pc = "saveOrder", !.orderIdx = k,
                            !.set = [status |-> "delivered"]])
    [] l.pc = "saveOrder" -> orderSave(db, l)

\* updateOrderToDelivered lines 231-250
updateOrderToDelivered(db, l) ==
  CASE l.pc = "start" -> Out(db, [l EXCEPT !.pc = "findOrder"])
    [] l.pc = "findOrder" ->
         LET k == findOrderById(db, l.req.orderId)
         IN IF k = 0 THEN Out(db, Respond(l, 404, "NotFound"))
            ELSE Out(db, [l EXCEPT !.pc = "saveOrder", !.orderIdx = k,
                            !.set = [isDelivered |-> TRUE,
                                     deliveredAt |-> <<db.now>>,
                                     status |-> "delivered"]])
    [] l.pc = "saveOrder" -> orderSave(db, l)

\* line 301
validStatuses == {"pending", "shipped", "delivered", "cancelled"}

\* updateOrderStatus lines 292-331
updateOrderStatus(db, l) ==
  CASE l.pc = "start" ->
         IF l.req.status = "" THEN Out(db, Respond(l, 400, "InvalidArgument"))
         ELSE IF l.req.status \notin validStatuses
         THEN Out(db, Respond(l, 400, "InvalidArgument"))
         ELSE Out(db, [l EXCEPT !.pc = "findOrder"])
    [] l.pc = "findOrder" ->
         LET k == findOrderById(db, l.req.orderId)
         IN IF k = 0 THEN Out(db, Respond(l, 404, "NotFound"))
            ELSE Out(db, [l EXCEPT !.pc = "saveOrder", !.orderIdx = k,
                            !.set = IF l.req.status = "delivered"
                                    THEN [status |-> l.req.status,
                                          isDelivered |-> TRUE,
                                          deliveredAt |-> <<db.now>>]
                                    ELSE [status |-> l.req.status]])
    [] l.pc = "saveOrder" -> orderSave(db, l)

----------------------------------------------------------------------------
(* Reading an order, src/unnamed/part_008 lines 175-197 and 336-380, and    *)
(* deleting a user, src/unnamed/part_006 lines 108-122, behind the          *)
(* middleware of src/middleware/authMiddleware.js                           *)

\* protect lines 30-36: req.user is the stored user the token names, <<>> when
\* no user has that _id
protect(db, userId) ==
  IF userId \in DOMAIN db.users
  THEN <<[_id |-> userId, role |-> db.users[userId].role]>> ELSE <<>>

\* .populate('userId', ...): the owner's document in place of its _id, null
\* when no user has that _id
populate(db, userId) ==
  IF userId \in DOMAIN db.users THEN <<[_id |-> userId]>> ELSE <<>>

\* lines 187 and 348: the requester may read the order
mayRead(owner, user) == ~(owner._id # user._id /\ user.role # "admin")

\* trackOrder lines 354-374
trackingInfo(k, order) ==
  [orderId |-> k, status |-> order.status, deliveredAt |-> order.deliveredAt,
   shipped |-> order.status \in {"shipped", "delivered"},
   delivered |-> order.status = "delivered"]

\* getOrderById lines 175-197 and trackOrder lines 336-380 (tracking): reading
\* order.userId._id of an order whose owner is gone throws a TypeError
readOrder(db, l, tracking) ==
  CASE l.pc = "start" ->
         LET user == protect(db, l.req.userId)
         IN IF user = <<>> THEN Out(db, Respond(l, 401, "Unauthorized"))
            ELSE Out(db, [l EXCEPT !.pc = "findOrder", !.user = user])
    [] l.pc = "findOrder" ->
         LET k == findOrderById(db, l.req.orderId)
         IN IF k = 0 THEN Out(db, Respond(l, 404, "NotFound"))
            ELSE LET owner == populate(db, db.orders[k].userId)
                 IN IF owner = <<>> THEN Out(db, Respond(l, 500, "TypeError"))
                    ELSE IF ~mayRead(owner[1], l.user[1])
                    THEN Out(db, Respond(l, 403, "Forbidden"))
                    ELSE Out(db, RespondData(l,
                                   IF tracking THEN trackingInfo(k, db.orders[k])
                                   ELSE db.orders[k]))

getOrderById(db, l) == readOrder(db, l, FALSE)

trackOrder(db, l) == readOrder(db, l, TRUE)

\* DELETE /api/users/:id: protect, admin (authMiddleware.js lines 54-62),
\* then deleteUser lines 108-122
deleteUser(db, l) ==
  CASE l.pc = "start" ->
         LET user == protect(db, l.req.userId)
         IN IF user = <<>> THEN Out(db, Respond(l, 401, "Unauthorized"))
            ELSE IF user[1].role # "admin"
            THEN Out(db, Respond(l, 403, "Forbidden"))
            ELSE Out(db, [l EXCEPT !.pc = "findUser", !.user = user])
    [] l.pc = "findUser" ->
         IF l.req.target \notin DOMAIN db.users
         THEN Out(db, Respond(l, 404, "NotFound"))
         ELSE Out(db, [l EXCEPT !.pc = "deleteOne"])
    [] l.pc = "deleteOne" ->
         Out([db EXCEPT !.users =
                [u \in DOMAIN db.users \ {l.req.target} |-> db.users[u]]],
             Respond(l, 200, "Success"))

----------------------------------------------------------------------------
(* Product administration, src/controllers/productController.js *)

\* validateProduct, src/utils/validation.js lines 74-101 (the body's category
\* and description are taken as given)
validateProduct(data) ==
  [isValid |-> ~(data.name = "" \/ data.price <= 0
                 \/ (data.stock # <<>> /\ data.stock[1] < 0))]

\* updateProduct lines 108-126, behind validateRequest(validateProduct)
updateProduct(db, l) ==
  CASE l.pc = "start" ->
         IF ~validateProduct(l.req).isValid
         THEN Out(db, Respond(l, 400, "InvalidArgument"))
         ELSE Out(db, [l EXCEPT !.pc = "findProduct"])
    [] l.pc = "findProduct" ->
         IF findById(db, l.req.productId) = <<>>
         THEN Out(db, Respond(l, 404, "NotFound"))
         ELSE Out(db, [l EXCEPT !.pc = "updateProduct"])
    [] l.pc = "updateProduct" ->
         IF l.req.productId \notin DOMAIN db.products
         THEN Out(db, Respond(l, 200, "Success"))
         ELSE Out([db EXCEPT !.products[l.req.productId] =
                     [@ EXCEPT !.name = l.req.name, !.price = l.req.price,
                               !.stock = IF l.req.stock = <<>> THEN @
                                         ELSE l.req.stock[1]]],
                  Respond(l, 200, "Success"))

\* deleteProduct lines 131-146
deleteProduct(db, l) ==
  CASE l.pc = "start" -> Out(db, [l EXCEPT !.pc = "findProduct"])
    [] l.pc = "findProduct" ->
         IF findById(db, l.req.productId) = <<>>
         THEN Out(db, Respond(l, 404, "NotFound"))
         ELSE Out(db, [l EXCEPT !.pc = "deleteOne"])
    [] l.pc = "deleteOne" ->
         Out([db EXCEPT !.products =
                [q \in DOMAIN db.products \ {l.req.productId} |-> db.products[q]]],
             Respond(l, 200, "Success"))

----------------------------------------------------------------------------
(* Cart schema, src/models/Cart.js.  The index on userId is not unique     *)
(* (line 30), so the collection may hold several carts of one identity.    *)

NullItem == [productId |-> "", quantity |-> 0]

\* Mongoose validation of cart items: quantity has min 1 (lines 18-23)
CartItemsValid(items) == \A k \in 1..Len(items) : items[k].quantity >= 1

\* an update that adds the quantity to the line instead of overwriting it
setItemQuantity_Adds(items, k, q) ==
  IF k <= Len(items) THEN [items EXCEPT ![k].quantity = @ + q] ELSE items

\* MongoDB's { $set: { 'items.<k>.quantity': q } }: an array shorter than k is
\* padded with nulls and the element is created with that one field
setItemQuantity(items, k, q) ==
  IF k <= Len(items) THEN [items EXCEPT ![k].quantity = q]
  ELSE items \o [j \in 1..(k - Len(items)) |->
                   IF j = k - Len(items) THEN [NullItem EXCEPT !.quantity = q]
                   ELSE NullItem]

\* Cart.create({ userId, items: [{ productId, quantity }], isGuest })
cartCreate(db, l, isGuest) ==
  LET items == <<[productId |-> l.req.productId,
                  quantity |-> NumOr(l.req.quantity, 1)]>>
  IN IF ~CartItemsValid(items) THEN Out(db, Respond(l, 400, "ValidationError"))
     ELSE Out([db EXCEPT !.carts = Append(@,
                 [userId |-> l.req.userId, isGuest |-> isGuest, items |-> items])],
              Respond(l, 200, "Success"))

\* cart.save() of a loaded cart document.  Mongoose sends what was modified:
\*   "set"      one element's quantity, { $set: { 'items.k.quantity': q } }, sent
\*              only where the version key still has the value that was loaded;
\*   "push"     { $push: { items: item } }, which increments the version key;
\*   "replace"  the whole array, { $set: { items: [...] } }, sent where the
\*              version key has the loaded value, and incrementing it.
\* l.stale says that the version key moved since this request loaded the cart.
cartSave(db, l) ==
  LET k == l.cartIdx
  IN CASE l.write = "set" ->
            IF l.newQuantity < 1 THEN Out(db, Respond(l, 400, "ValidationError"))
            ELSE IF l.stale THEN Out(db, Respond(l, 500, "VersionError"))
            ELSE Out([db EXCEPT !.carts[k].items =
                        setItemQuantity(@, l.itemIndex, l.newQuantity)],
                     Respond(l, 200, "Success"))
       [] l.write = "push" ->
            IF ~CartItemsValid(l.newItems)
            THEN Out(db, Respond(l, 400, "ValidationError"))
            ELSE [db |-> [db EXCEPT !.carts[k].items = @ \o l.newItems],
                  l |-> Respond(l, 200, "Success"), bumped |-> k]
       [] l.write = "replace" ->
            IF l.stale THEN Out(db, Respond(l, 500, "VersionError"))
            ELSE [db |-> [db EXCEPT !.carts[k].items = l.newItems],
                  l |-> Respond(l, 200, "Success"), bumped |-> k]

----------------------------------------------------------------------------
(* Cart controller, src/unnamed/part_006 lines 451-888 *)

\* an add that overwrites the quantity of the line
newQuantityOf_Overwrites(current, quantity) == quantity

\* addToCart line 499, addToGuestCart line 707: the line's quantity after adding
newQuantityOf(current, quantity) == current + quantity

\* addToCart lines 492-512 (checkStock) and addToGuestCart lines 700-711:
\* cart `k` was found; bump the line of the product or push a new line
addTo(db, l, k, checkStock) ==
  LET items == db.carts[k].items
      itemIndex == findIndex(items, l.req.productId)
      quantity == NumOr(l.req.quantity, 1)
  IN IF itemIndex > 0
     THEN LET newQuantity == newQuantityOf(items[itemIndex].quantity, quantity)
          IN IF checkStock /\ outOfStock(l.stock, newQuantity)
             THEN Out(db, Respond(l, 400, "InsufficientStock"))
             ELSE Out(db, [l EXCEPT !.pc = "saveCart", !.cartIdx = k,
                                    !.write = "set", !.itemIndex = itemIndex,
                                    !.newQuantity = newQuantity])
     ELSE Out(db, [l EXCEPT !.pc = "saveCart", !.cartIdx = k, !.write = "push",
                     !.newItems = <<[productId |-> l.req.productId,
                                     quantity |-> quantity]>>])

\* lines 458-524
addToCart(db, l) ==
  CASE l.pc = "start" ->
         IF l.req.productId = "" THEN Out(db, Respond(l, 400, "InvalidArgument"))
         ELSE Out(db, [l EXCEPT !.pc = "findProduct"])
    [] l.pc = "findProduct" ->
         LET product == findById(db, l.req.productId)
         IN IF product = <<>> THEN Out(db, Respond(l, 404, "NotFound"))
            ELSE IF outOfStock(product[1].stock, NumOr(l.req.quantity, 1))
            THEN Out(db, Respond(l, 400, "InsufficientStock"))
            ELSE Out(db, [l EXCEPT !.pc = "findCart", !.stock = product[1].stock])
    [] l.pc = "findCart" ->
         LET k == findOne(db, l.req.userId)
         IN IF k = 0 THEN Out(db, [l EXCEPT !.pc = "createCart"])
            ELSE addTo(db, l, k, TRUE)
    [] l.pc = "createCart" -> cartCreate(db, l, FALSE)
    [] l.pc = "saveCart" -> cartSave(db, l)

\* lines 672-724: the guest variant has no stock check
addToGuestCart(db, l) ==
  CASE l.pc = "start" ->
         IF l.req.productId = "" \/ l.req.userId = ""
         THEN Out(db, Respond(l, 400, "InvalidArgument"))
         ELSE Out(db, [l EXCEPT !.pc = "findProduct"])
    [] l.pc = "findProduct" ->
         LET product == findById(db, l.req.productId)
         IN IF product = <<>> THEN Out(db, Respond(l, 404, "NotFound"))
            ELSE Out(db, [l EXCEPT !.pc = "findCart", !.stock = product[1].stock])
    [] l.pc = "findCart" ->
         LET k == findOne(db, l.req.userId)
         IN IF k = 0 THEN Out(db, [l EXCEPT !.pc = "createCart"])
            ELSE addTo(db, l, k, FALSE)
    [] l.pc = "createCart" -> cartCreate(db, l, TRUE)
    [] l.pc = "saveCart" -> cartSave(db, l)

\* updateCartItem lines 549-608; updateGuestCartItem lines 758-818 differs
\* only in requiring the session id
updateItem(db, l, isGuest) ==
  CASE l.pc = "start" ->
         IF l.req.productId = "" \/ l.req.quantity = 0
            \/ (isGuest /\ l.req.userId = "")
         THEN Out(db, Respond(l, 400, "InvalidArgument"))
         ELSE IF l.req.quantity < 1
         THEN Out(db, Respond(l, 400, "InvalidArgument"))
         ELSE Out(db, [l EXCEPT !.pc = "findProduct"])
    [] l.pc = "findProduct" ->
         LET product == findById(db, l.req.productId)
         IN IF product = <<>> THEN Out(db, Respond(l, 404, "NotFound"))
            ELSE IF outOfStock(product[1].stock, l.req.quantity)
            THEN Out(db, Respond(l, 400, "InsufficientStock"))
            ELSE Out(db, [l EXCEPT !.pc = "findCart"])
    [] l.pc = "findCart" ->
         LET k == findOne(db, l.req.userId)
         IN IF k = 0 THEN Out(db, Respond(l, 404, "NotFound"))
            ELSE LET itemIndex == findIndex(db.carts[k].items, l.req.productId)
                 IN IF itemIndex = 0 THEN Out(db, Respond(l, 404, "NotFound"))
                    ELSE Out(db, [l EXCEPT !.pc = "saveCart", !.cartIdx = k,
                                    !.write = "set", !.itemIndex = itemIndex,
                                    !.newQuantity = l.req.quantity])
    [] l.pc = "saveCart" -> cartSave(db, l)

updateCartItem(db, l) == updateItem(db, l, FALSE)

updateGuestCartItem(db, l) == updateItem(db, l, TRUE)

\* removeFromCart lines 613-644 (the route always binds :productId, the check
\* of line 616 is on it); removeFromGuestCart lines 823-856 checks the session id
removeItem(db, l, isGuest) ==
  CASE l.pc = "start" ->
         IF (~isGuest /\ l.req.productId = "") \/ (isGuest /\ l.req.userId = "")
         THEN Out(db, Respond(l, 400, "InvalidArgument"))
         ELSE Out(db, [l EXCEPT !.pc = "findCart"])
    [] l.pc = "findCart" ->
         LET k == findOne(db, l.req.userId)
         IN IF k = 0 THEN Out(db, Respond(l, 404, "NotFound"))
            ELSE Out(db, [l EXCEPT !.pc = "saveCart", !.cartIdx = k,
                            !.write = "replace",
                            !.newItems = filterOut(db.carts[k].items,
                                                   l.req.productId)])
    [] l.pc = "saveCart" -> cartSave(db, l)

removeFromCart(db, l) == removeItem(db, l, FALSE)

removeFromGuestCart(db, l) == removeItem(db, l, TRUE)

\* a clear that leaves the first line in the cart
emptyItems_KeepsFirst(items) == IF items = <<>> THEN <<>> ELSE <<Head(items)>>

\* clearCart line 659, clearGuestCart line 880: cart.items = []
emptyItems(items) == <<>>

\* clearCart lines 649-667; clearGuestCart lines 861-888 answers 200 at once
\* when no session id is given
clearItems(db, l, isGuest) ==
  CASE l.pc = "start" ->
         IF isGuest /\ l.req.userId = "" THEN Out(db, Respond(l, 200, "Success"))
         ELSE Out(db, [l EXCEPT !.pc = "findCart"])
    [] l.pc = "findCart" ->
         LET k == findOne(db, l.req.userId)
         IN IF k = 0 THEN Out(db, Respond(l, 200, "Success"))
            ELSE Out(db, [l EXCEPT !.pc = "saveCart", !.cartIdx = k,
                            !.write = "replace",
                            !.newItems = emptyItems(db.carts[k].items)])
    [] l.pc = "saveCart" -> cartSave(db, l)

clearCart(db, l) == clearItems(db, l, FALSE)

clearGuestCart(db, l) == clearItems(db, l, TRUE)

\* getCart lines 529-544 and getGuestCart lines 729-753: the lines of the cart
\* of an identity, none when it has no cart record
getCart(db, userId) ==
  LET k == findOne(db, userId) IN IF k = 0 THEN <<>> ELSE db.carts[k].items

----------------------------------------------------------------------------
(* Product search, src/controllers/productController.js lines 196-262, and  *)
(* the external catalog service, src/unnamed/part_003 lines 1-164.  The     *)
(* query strings the handler reads character by character (q, limit) and    *)
(* the product names it matches are sequences of one-character strings.     *)

Upper ==
  <<"A", "B", "C", "D", "E", "F", "G", "H", "I", "J", "K", "L", "M",
    "N", "O", "P", "Q", "R", "S", "T", "U", "V", "W", "X", "Y", "Z">>

Lower ==
  <<"a", "b", "c", "d", "e", "f", "g", "h", "i", "j", "k", "l", "m",
    "n", "o", "p", "q", "r", "s", "t", "u", "v", "w", "x", "y", "z">>

Digits == <<"0", "1", "2", "3", "4", "5", "6", "7", "8", "9">>

\* the case folding of the regex option 'i'
toLowerCase(c) ==
  IF \E i \in DOMAIN Upper : Upper[i] = c
  THEN Lower[CHOOSE i \in DOMAIN Upper : Upper[i] = c] ELSE c

isDigit(c) == \E i \in DOMAIN Digits : Digits[i] = c

digitOf(c) == (CHOOSE i \in DOMAIN Digits : Digits[i] = c) - 1

RECURSIVE trimStart(_)
trimStart(str) ==
  IF str # <<>> /\ Head(str) = " " THEN trimStart(Tail(str)) ELSE str

RECURSIVE trimEnd(_)
trimEnd(str) ==
  IF str # <<>> /\ str[Len(str)] = " "
  THEN trimEnd(SubSeq(str, 1, Len(str) - 1)) ELSE str

\* String.prototype.trim
trim(str) == trimEnd(trimStart(str))

\* the value of the longest prefix of decimal digits, read left to right
RECURSIVE digitsValue(_, _)
digitsValue(str, acc) ==
  IF str # <<>> /\ isDigit(Head(str))
  THEN digitsValue(Tail(str), 10 * acc + digitOf(Head(str))) ELSE acc

\* parseInt(str, 10): leading blanks are skipped, a sign is read, then the
\* longest prefix of digits; <<>> is NaN (no digit there)
parseInt(str) ==
  LET t == trimStart(str)
      signed == t # <<>> /\ Head(t) \in {"-", "+"}
      body == IF signed THEN Tail(t) ELSE t
  IN IF body = <<>> \/ ~isDigit(Head(body)) THEN <<>>
     ELSE IF signed /\ Head(t) = "-" THEN <<0 - digitsValue(body, 0)>>
     ELSE <<digitsValue(body, 0)>>

\* Array.prototype.slice(0, end): a negative end counts from the end
slice(arr, end) ==
  LET stop == IF end < 0 THEN Len(arr) + end ELSE end
  IN IF stop <= 0 THEN <<>>
     ELSE IF stop >= Len(arr) THEN arr ELSE SubSeq(arr, 1, stop)

\* a validation that lets a term of one character through
tooShort_OneChar(q) == q = <<>> \/ Len(trim(q)) < 1

\* searchProducts line 200: !q || q.trim().length < 2
tooShort(q) == q = <<>> \/ Len(trim(q)) < 2

\* searchProducts line 208: Math.min(parseInt(limit, 10) || 10, 50); an absent
\* limit is 10 by the default of line 197; NaN and 0 are falsy
pageLimitOf(limit) ==
  LET n == parseInt(limit)
      asked == IF n = <<>> \/ n[1] = 0 THEN 10 ELSE n[1]
  IN IF asked < 50 THEN asked ELSE 50

\* the names of the catalog, character by character
Text(name) ==
  CASE name = "Organic Milk" ->
         <<"O", "r", "g", "a", "n", "i", "c", " ", "M", "i", "l", "k">>
    [] name = "Raw Honey" -> <<"R", "a", "w", " ", "H", "o", "n", "e", "y">>
    [] name = "Goat Milk" -> <<"G", "o", "a", "t", " ", "M", "i", "l", "k">>

\* { $regex: searchTerm, $options: 'i' } for a term of letters and blanks:
\* the term occurs in the text, whatever the case
regexMatch(text, searchTerm) ==
  \E i \in 1..(Len(text) - Len(searchTerm) + 1) :
    \A j \in 1..Len(searchTerm) :
      toLowerCase(text[i + j - 1]) = toLowerCase(searchTerm[j])

\* the category of the seeded products (Product.js, category)
categoryOf(productId) == IF productId = "p1" THEN "Dairy" ELSE "Farm Products"

\* .sort({ rating: -1, createdAt: -1 }) of products of equal rating: the one
\* stored last comes first
sortedIds == <<"p2", "p1">>

\* Product.find(localQuery).limit(pageLimit).sort(...), lines 212-229: the
\* seeded products have a name and no description, tags or benefits; a
\* negative limit is served as its absolute value
find(db, searchTerm, category, pageLimit) ==
  LET hit(p) == /\ p \in DOMAIN db.products
                /\ regexMatch(Text(db.products[p].name), searchTerm)
                /\ ((category # "" /\ category # "All") => categoryOf(p) = category)
      ids == SelectSeq(sortedIds, hit)
      docs == [k \in 1..Len(ids) |-> [_id |-> ids[k], name |-> db.products[ids[k]].name]]
      n == IF pageLimit < 0 THEN 0 - pageLimit ELSE pageLimit
  IN IF n < Len(docs) THEN SubSeq(docs, 1, n) ELSE docs

\* part_003 line 10
MAX_EXTERNAL_RESULTS == 10

\* a catch block that hands the error on to the caller
caught_Rethrows(error) == [products |-> <<>>, threw |-> TRUE]

\* fetchExternalProducts lines 64-75: the error is logged, [] is returned
caught(error) == [products |-> <<>>, threw |-> FALSE]

\* fetchExternalProducts lines 17-76.  reply is what the catalog service does
\* with the request: no answer within API_TIMEOUT, or a status and a body.
\* axios throws on a timeout and on a status outside 2xx; .filter on a value
\* that is no array and product.product_name on a null element throw a
\* TypeError; every throw lands in the catch block.
fetchExternalProducts(searchTerm, reply) ==
  IF searchTerm = <<>> \/ Len(trim(searchTerm)) < 2
  THEN [products |-> <<>>, threw |-> FALSE]
  ELSE IF reply.kind = "timeout" THEN caught("timeout")
  ELSE IF reply.status \notin 200..299 THEN caught("status")
  ELSE IF reply.data = <<>> THEN [products |-> <<>>, threw |-> FALSE]
  ELSE IF reply.data[1].products = <<>> THEN [products |-> <<>>, threw |-> FALSE]
  ELSE LET list == reply.data[1].products[1]
       IN IF ~list.isArray THEN caught("TypeError")
          ELSE IF \E k \in 1..Len(list.items) : list.items[k] = <<>>
          THEN caught("TypeError")
          ELSE LET named == SelectSeq(list.items,
                                      LAMBDA product : product[1].product_name # "")
                   kept == slice(named, MAX_EXTERNAL_RESULTS)
               IN [products |->
                     [k \in 1..Len(kept) |->
                        [_id |-> kept[k][1].code, name |-> kept[k][1].product_name,
                         source |-> "external"]],
                   threw |-> FALSE]

\* line 160: { ...p.toObject(), source: 'local' }
tagLocal(p) ==
  [f \in DOMAIN p \cup {"source"} |-> IF f = "source" THEN "local" ELSE p[f]]

\* a combination that lists the external products first
combineResults_ExternalFirst(localProducts, externalProducts) ==
  [local |-> [count |-> Len(localProducts), data |-> localProducts],
   external |-> [count |-> Len(externalProducts), data |-> externalProducts],
   total |-> Len(localProducts) + Len(externalProducts),
   combinedData |->
     externalProducts \o [k \in 1..Len(localProducts) |-> tagLocal(localProducts[k])]]

\* combineResults, part_003 lines 148-164
combineResults(localProducts, externalProducts) ==
  [local |-> [count |-> Len(localProducts), data |-> localProducts],
   external |-> [count |-> Len(externalProducts), data |-> externalProducts],
   total |-> Len(localProducts) + Len(externalProducts),
   combinedData |->
     [k \in 1..Len(localProducts) |-> tagLocal(localProducts[k])]
       \o externalProducts]

\* a test that asks the external catalog whatever the request says
askExternal_Always(includeExternal, localCount, pageLimit) == localCount < pageLimit

\* line 236: includeExternal === 'true' && localProducts.length < pageLimit
\* (an absent includeExternal is the boolean true of line 197, not 'true')
askExternal(includeExternal, localCount, pageLimit) ==
  includeExternal = "true" /\ localCount < pageLimit

\* lines 242-255: the body of the 200 response
searchBody(l, externalProducts) ==
  LET combinedResults == combineResults(l.localProducts, externalProducts)
  IN [query |-> trim(l.req.q), totalResults |-> combinedResults.total,
      localCount |-> combinedResults.local.count,
      externalCount |-> combinedResults.external.count,
      data |-> slice(combinedResults.combinedData, pageLimitOf(l.req.limit))]

\* searchProducts lines 196-262
searchProducts(db, l) ==
  CASE l.pc = "start" ->
         IF tooShort(l.req.q) THEN Out(db, Respond(l, 400, "InvalidArgument"))
         ELSE Out(db, [l EXCEPT !.pc = "find", !.calls = @ \cup {"Product.find"}])
    [] l.pc = "find" ->
         LET pageLimit == pageLimitOf(l.req.limit)
             localProducts == find(db, trim(l.req.q), l.req.category, pageLimit)
             found == [l EXCEPT !.localProducts = localProducts]
         IN IF askExternal(l.req.includeExternal, Len(localProducts), pageLimit)
            THEN Out(db, [found EXCEPT !.pc = "fetch",
                                       !.calls = @ \cup {"fetchExternalProducts"}])
            ELSE Out(db, RespondData(found, searchBody(found, <<>>)))
    [] l.pc = "fetch" ->
         LET fetched == fetchExternalProducts(trim(l.req.q), l.req.reply)
         IN IF fetched.threw THEN Out(db, Respond(l, 500, "SearchError"))
            ELSE Out(db, RespondData(l, searchBody(l, fetched.products)))

----------------------------------------------------------------------------
(* Routing, src/routes/cartRoutes.js and src/routes/orderRoutes.js *)

\* the next atomic segment of the handler serving request l
Handler(db, l) ==
  CASE l.req.op = "createOrder" -> createOrder(db, l)
    [] l.req.op = "addToCart" -> addToCart(db, l)
    [] l.req.op = "addToGuestCart" -> addToGuestCart(db, l)
    [] l.req.op = "updateCartItem" -> updateCartItem(db, l)
    [] l.req.op = "updateGuestCartItem" -> updateGuestCartItem(db, l)
    [] l.req.op = "removeFromCart" -> removeFromCart(db, l)
    [] l.req.op = "removeFromGuestCart" -> removeFromGuestCart(db, l)
    [] l.req.op = "clearCart" -> clearCart(db, l)
    [] l.req.op = "clearGuestCart" -> clearGuestCart(db, l)
    [] l.req.op = "updateOrderStatus" -> updateOrderStatus(db, l)
    [] l.req.op = "updateOrderToPaid" -> updateOrderToPaid(db, l)
    [] l.req.op = "updateOrderToDelivered" -> updateOrderToDelivered(db, l)
    [] l.req.op = "updateProduct" -> updateProduct(db, l)
    [] l.req.op = "deleteProduct" -> deleteProduct(db, l)
    [] l.req.op = "getOrderById" -> getOrderById(db, l)
    [] l.req.op = "trackOrder" -> trackOrder(db, l)
    [] l.req.op = "deleteUser" -> deleteUser(db, l)
    [] l.req.op = "searchProducts" -> searchProducts(db, l)

\* a handler run from its first segment to its response with no other request
\* in between
RECURSIVE Run(_, _)
Run(db, l) ==
  IF l.pc = "done" THEN [db |-> db, l |-> l]
  ELSE LET o == Handler(db, l) IN Run(o.db, o.l)

----------------------------------------------------------------------------
(* The server *)

TypeProducts(stockOf) ==
  [p \in ProductIds |->
     [name |-> IF p = "p1" THEN "Organic Milk" ELSE "Raw Honey",
      price |-> IF p = "p1" THEN 5 ELSE 7,
      image |-> IF p = "p1" THEN "milk.png" ELSE "honey.png",
      stock |-> stockOf[p]]]

\* the accounts of the User collection when the system starts
Accounts ==
  [u \in UserIds \cup OtherUserIds \cup AdminIds |->
     [role |-> IF u \in AdminIds THEN "admin" ELSE "user"]]

\* the stocks the shop may start with: one product with the largest stock, the
\* other with one unit less
StartStocks ==
  {[p \in ProductIds |-> IF p = "p1" THEN MaxStock ELSE MaxStock - 1]}

NoDB ==
  [products |-> <<>>, carts |-> <<>>, orders |-> <<>>, now |-> 0, users |-> <<>>]

\* what `last` remembers of a finished request: the request, the response, and
\* (when the handler ran alone) the database it started from
Finished(l, before) ==
  [req |-> l.req, status |-> l.status, kind |-> l.kind, data |-> l.data,
   calls |-> l.calls, before |-> before]

Init ==
  /\ \E stockOf \in StartStocks :
       /\ products = TypeProducts(stockOf)
       /\ initStock = stockOf
  /\ carts = <<>>
  /\ orders = <<>>
  /\ inflight = [s \in Slots |-> Idle]
  /\ now = 0
  /\ users = Accounts
  /\ last = [req |-> [op |-> "none"], status |-> 0, kind |-> "", data |-> <<>>,
             calls |-> {}, before |-> NoDB]

\* One request served from arrival to response with no other request in
\* between: the whole handler is one step.
Serve(req) ==
  \E o \in {Run(DB, Accept(req))} :
     /\ products' = o.db.products
     /\ carts' = o.db.carts
     /\ orders' = o.db.orders
     /\ users' = o.db.users
     /\ last' = Finished(o.l, DB)
     /\ UNCHANGED <<inflight, initStock, now>>

\* Slot s runs the next atomic segment of request l.  A segment that
\* increments a cart's version key makes the copies of that cart loaded by the
\* other requests in flight stale.
Advance(s, l) ==
  \E o \in {Handler(DB, l)} :
     /\ products' = o.db.products
     /\ carts' = o.db.carts
     /\ orders' = o.db.orders
     /\ users' = o.db.users
     /\ inflight' =
          [t \in Slots |->
             IF t = s THEN (IF o.l.pc = "done" THEN Idle ELSE o.l)
             ELSE IF o.bumped # 0 /\ inflight[t].cartIdx = o.bumped
             THEN [inflight[t] EXCEPT !.stale = TRUE]
             ELSE inflight[t]]
     /\ last' = IF o.l.pc = "done" THEN Finished(o.l, NoDB) ELSE last
     /\ UNCHANGED <<initStock, now>>

\* a request arrives at a free slot and runs up to its first await
Begin(s, req) == inflight[s].pc = "idle" /\ Advance(s, Accept(req))

\* the awaited database call of the request in slot s answers
Continue(s) == inflight[s].pc # "idle" /\ Advance(s, inflight[s])

Quiescent == \A s \in Slots : inflight[s].pc = "idle"

----------------------------------------------------------------------------
(* Requests the clients send *)

GoodAddress ==
  <<[address |-> "", street |-> "12 Farm Road", city |-> "Pune",
     state |-> "MH", pincode |-> "", zipCode |-> "411001"]>>

\* an order line that declares its own name, price and image
DeclaredLine(productId, quantity, name, price, image) ==
  [product |-> "", productId |-> productId, quantity |-> quantity,
   name |-> name, price |-> price, image |-> image]

\* an order line that declares none of them
Line(productId, quantity) == DeclaredLine(productId, quantity, "", 0, "")

Lines(refs, quantities) == {Line(r, q) : r \in refs, q \in quantities}

ItemLists(lines, maxLen) == UNION {[1..n -> lines] : n \in 1..maxLen}

\* the address under the names address and pincode
AliasAddress ==
  <<[address |-> "12 Farm Road", street |-> "", city |-> "Pune",
     state |-> "MH", pincode |-> "411001", zipCode |-> ""]>>

\* an address without its city
NoCityAddress == <<[GoodAddress[1] EXCEPT !.city = ""]>>

\* the body of POST /api/orders/create: the lines under items or products,
\* the address under shippingAddress or address
OrderBody(userId, items, list, totalAmount, shippingAddress, address, method) ==
  [op |-> "createOrder", userId |-> userId, items |-> items,
   products |-> list, totalAmount |-> totalAmount,
   shippingAddress |-> shippingAddress, address |-> address,
   paymentMethod |-> method]

OrderRequest(userId, items, totalAmount, shippingAddress, paymentMethod) ==
  OrderBody(userId, items, <<>>, totalAmount, shippingAddress, <<>>,
            paymentMethod)

CartRequest(op, userId, productId, quantity) ==
  [op |-> op, userId |-> userId, productId |-> productId, quantity |-> quantity]

\* createOrder requests that pass validateOrder: up to MaxLines lines paid by
\* card, single lines (also of quantity 0) paid by card or by a method the
\* Order schema does not list, and single lines that declare their own name,
\* price and image
OrderRequests ==
  {OrderRequest(u, <<items>>, 10, GoodAddress, "card") :
     u \in UserIds, items \in ItemLists(Lines(Refs, 1..MaxQty), MaxLines)}
  \cup
  {OrderRequest(u, <<items>>, 10, GoodAddress, pm) :
     u \in UserIds, items \in ItemLists(Lines(Refs, 0..MaxQty), 1),
     pm \in {"card", "bitcoin"}}
  \cup
  {OrderRequest(u, << <<DeclaredLine(r, 1, "Bargain", 1, "own.png")>> >>, 10,
                a, "card") :
     u \in UserIds, r \in {"p1", "x1"}, a \in {GoodAddress, AliasAddress}}

\* createOrder requests that validateOrder or the handler's own checks reject
BadOrderRequests ==
  {OrderRequest(u, b[1], b[2], b[3], b[4]) :
     u \in UserIds,
     b \in {<< <<>>, 10, GoodAddress, "card">>,
            << << <<>> >>, 10, GoodAddress, "card">>,
            << << <<Line("p1", 1)>> >>, 0, GoodAddress, "card">>,
            << << <<Line("p1", 1)>> >>, 10, <<>>, "card">>,
            << << <<Line("p1", 1)>> >>, 10, <<NoAddress>>, "card">>,
            << << <<Line("p1", 1)>> >>, 10, GoodAddress, "">>,
            << << <<Line("p1", 1)>> >>, 0 - 1, GoodAddress, "card">>,
            << << <<Line("p1", 1)>> >>, 10, NoCityAddress, "card">>}}
  \cup
  {OrderBody(u, b[1], b[2], 10, b[3], b[4], "card") :
     u \in UserIds,
     b \in {<< << <<>> >>, << <<Line("p1", 1)>> >>, GoodAddress, <<>> >>,
            << << <<Line("p1", 1)>> >>, << <<>> >>, GoodAddress, <<>> >>,
            << << <<Line("p1", 1)>> >>, <<>>, GoodAddress, <<NoAddress>> >>,
            << << <<Line("p1", 1)>> >>, <<>>, NoCityAddress, GoodAddress>>}}

AddOps == {"addToCart", "addToGuestCart"}
UpdateOps == {"updateCartItem", "updateGuestCartItem"}
RemoveOps == {"removeFromCart", "removeFromGuestCart"}
ClearOps == {"clearCart", "clearGuestCart"}

\* the identities a cart route serves: req.user._id behind `protect`, the
\* body's sessionId on the guest routes
Callers(op) ==
  IF op \in {"addToCart", "updateCartItem", "removeFromCart", "clearCart"}
  THEN UserIds ELSE SessionIds

\* quantity of the lines of productId among items
RECURSIVE LineQty(_, _)
LineQty(items, productId) ==
  IF items = <<>> THEN 0
  ELSE (IF Head(items).productId = productId THEN Head(items).quantity ELSE 0)
       + LineQty(Tail(items), productId)

LineCount(items, productId) ==
  Cardinality({k \in 1..Len(items) : items[k].productId = productId})

\* the guest add (which no stock check bounds) would not take the line past
\* the cap of the model
BelowCap(req) ==
  LineQty(getCart(DB, req.userId), req.productId) + NumOr(req.quantity, 1)
    <= MaxCartQty

----------------------------------------------------------------------------
(* SpecCart: the cart routes, one request at a time *)

AddItem ==
  \E op \in AddOps : \E u \in Callers(op) :
    \E p \in Refs \cup {""} : \E q \in 0..MaxQty :
      LET req == CartRequest(op, u, p, q)
      IN (op = "addToGuestCart" => BelowCap(req)) /\ Serve(req)

UpdateItem ==
  \E op \in UpdateOps : \E u \in Callers(op) :
    \E p \in Refs \cup {""} : \E q \in 0..(MaxStock + 1) :
      Serve(CartRequest(op, u, p, q))

RemoveItem ==
  \E op \in RemoveOps : \E u \in Callers(op) : \E p \in Refs :
    Serve(CartRequest(op, u, p, 0))

ClearItems ==
  \E op \in ClearOps : \E u \in Callers(op) : Serve(CartRequest(op, u, "", 0))

NextCart == AddItem \/ UpdateItem \/ RemoveItem \/ ClearItems

SpecCart == Init /\ [][NextCart]_vars

----------------------------------------------------------------------------
(* SpecIsolation: a user and a guest work on their carts, one request at a  *)
(* time, and the user checks out.                                           *)

ShopAdd ==
  \E op \in AddOps : \E u \in Callers(op) : \E p \in ProductIds :
    LET req == CartRequest(op, u, p, 1) IN BelowCap(req) /\ Serve(req)

ShopUpdate ==
  \E op \in UpdateOps : \E u \in Callers(op) : \E p \in ProductIds :
    \E q \in 1..MaxQty : Serve(CartRequest(op, u, p, q))

ShopRemove ==
  \E op \in RemoveOps : \E u \in Callers(op) : \E p \in ProductIds :
    Serve(CartRequest(op, u, p, 0))

ShopClear ==
  \E op \in ClearOps : \E u \in Callers(op) : Serve(CartRequest(op, u, "", 0))

ShopOrder ==
  \E u \in UserIds : \E p \in ProductIds : \E q \in 1..MaxQty :
    /\ Len(orders) < MaxOrders
    /\ Serve(OrderRequest(u, << <<Line(p, q)>> >>, 10, GoodAddress, "card"))

NextIsolation == ShopAdd \/ ShopUpdate \/ ShopRemove \/ ShopClear \/ ShopOrder

SpecIsolation == Init /\ [][NextIsolation]_vars

----------------------------------------------------------------------------
(* SpecOrders: the life of an order, one request at a time.  A user checks  *)
(* out, the order's status, payment and delivery are updated, products are  *)
(* edited and deleted, and the clock advances between requests.             *)

\* PUT /:id/status, and the bodies of the payment and delivery handlers
OrderOp(op, orderId, status, payer) ==
  [op |-> op, userId |-> "admin", orderId |-> orderId, status |-> status,
   payer |-> payer]

\* PUT and DELETE /api/products/:id
ProductOp(op, productId, name, price, stock) ==
  [op |-> op, userId |-> "admin", productId |-> productId, name |-> name,
   price |-> price, stock |-> stock]

OrderIds == 1..(MaxOrders + 1)

Payer == <<[email_address |-> "buyer@example.org"]>>

Checkout ==
  \E u \in UserIds : \E r \in {"p1", "x1"} :
    /\ Len(orders) < MaxOrders
    /\ Serve(OrderRequest(u, << <<Line(r, 1)>> >>, 10, GoodAddress, "card"))

SetStatus ==
  \E id \in OrderIds : \E st \in validStatuses \cup {"", "refunded"} :
    Serve(OrderOp("updateOrderStatus", id, st, <<>>))

MarkPaid ==
  \E id \in OrderIds : \E payer \in {<<>>, Payer} :
    Serve(OrderOp("updateOrderToPaid", id, "", payer))

Deliver == \E id \in OrderIds : Serve(OrderOp("updateOrderToDelivered", id, "", <<>>))

EditProduct ==
  \E b \in {<<"Goat Milk", 9, <<>> >>, <<"", 9, <<>> >>,
             <<"Goat Milk", 9, <<0>> >>} :
    Serve(ProductOp("updateProduct", "p1", b[1], b[2], b[3]))

DeleteProduct ==
  \E r \in {"p1", "x1"} : Serve(ProductOp("deleteProduct", r, "", 0, <<>>))

TouchCart == \E u \in UserIds : Serve(CartRequest("addToCart", u, "p2", 0))

\* time passes between two requests
Tick == now < MaxNow /\ now' = now + 1
        /\ UNCHANGED <<products, carts, orders, inflight, last, initStock, users>>

NextOrders ==
  \/ Checkout \/ SetStatus \/ MarkPaid \/ Deliver
  \/ EditProduct \/ DeleteProduct \/ TouchCart \/ Tick

SpecOrders == Init /\ [][NextOrders]_vars

----------------------------------------------------------------------------
(* SpecReceipts: several orders are placed and then paid, delivered and     *)
(* cancelled while products are edited and deleted and carts are filled.    *)

CheckoutAgain ==
  \E u \in UserIds : \E r \in {"p1", "x1"} :
    /\ Len(orders) < MaxReceipts
    /\ Serve(OrderRequest(u, << <<Line(r, 1)>> >>, 10, GoodAddress, "card"))

CloseOrder ==
  \E id \in 1..MaxReceipts : \E st \in {"delivered", "cancelled"} :
    Serve(OrderOp("updateOrderStatus", id, st, <<>>))

PayOrder ==
  \E id \in 1..MaxReceipts : Serve(OrderOp("updateOrderToPaid", id, "", Payer))

DeliverOrder ==
  \E id \in 1..MaxReceipts :
    Serve(OrderOp("updateOrderToDelivered", id, "", <<>>))

RenameProduct == Serve(ProductOp("updateProduct", "p1", "Goat Milk", 9, <<>>))

RemoveProduct == Serve(ProductOp("deleteProduct", "p1", "", 0, <<>>))

NextReceipts ==
  \/ CheckoutAgain \/ CloseOrder \/ PayOrder \/ DeliverOrder
  \/ RenameProduct \/ RemoveProduct \/ TouchCart

SpecReceipts == Init /\ [][NextReceipts]_vars

----------------------------------------------------------------------------
(* Spec: checkout, one request at a time.  Users fill and clear their carts *)
(* and place orders.                                                        *)

PlaceOrder ==
  \E req \in OrderRequests \cup BadOrderRequests :
    Len(orders) < MaxOrders /\ Serve(req)

FillCart ==
  \E u \in UserIds : Serve(CartRequest("addToCart", u, "p1", 0))

EmptyCart == \E u \in UserIds : Serve(CartRequest("clearCart", u, "", 0))

Next == PlaceOrder \/ FillCart \/ EmptyCart

Spec == Init /\ [][Next]_vars

----------------------------------------------------------------------------
(* SpecOrderRace: two createOrder requests in flight at once, each of one   *)
(* line of a stored product, paid by card: requests that, served one at a   *)
(* time, either fail before reserving or reserve and persist their order.   *)

RaceOrderRequests ==
  {OrderRequest(u, <<items>>, 10, GoodAddress, "card") :
     u \in UserIds, items \in ItemLists(Lines(ProductIds, 1..MaxQty), 1)}

BeginOrder ==
  \E s \in Slots : \E req \in RaceOrderRequests :
    Len(orders) < MaxOrders /\ Begin(s, req)

ContinueAny == \E s \in Slots : Continue(s)

NextOrderRace == BeginOrder \/ ContinueAny

SpecOrderRace == Init /\ [][NextOrderRace]_vars

----------------------------------------------------------------------------
(* SpecReserveRace: two createOrder requests in flight at once, each of up  *)
(* to MaxLines lines, which may list a product more than once.              *)

ReserveRequests ==
  {OrderRequest(u, <<items>>, 10, GoodAddress, "card") :
     u \in UserIds, items \in ItemLists(Lines(ProductIds, 1..MaxQty), MaxLines)}

BeginReserve ==
  \E s \in Slots : \E req \in ReserveRequests :
    Len(orders) < MaxOrders /\ Begin(s, req)

NextReserveRace == BeginReserve \/ ContinueAny

SpecReserveRace == Init /\ [][NextReserveRace]_vars

----------------------------------------------------------------------------
(* SpecCartRace: two cart requests about one product in flight at once *)

RaceProductIds == {"p1"}

BeginAdd ==
  \E s \in Slots : \E op \in AddOps : \E u \in Callers(op) : \E p \in RaceProductIds :
    LET req == CartRequest(op, u, p, 0)
    IN (op = "addToGuestCart" => BelowCap(req)) /\ Begin(s, req)

BeginRemove ==
  \E s \in Slots : \E op \in RemoveOps : \E u \in Callers(op) : \E p \in RaceProductIds :
    Begin(s, CartRequest(op, u, p, 0))

NextCartRace == BeginAdd \/ BeginRemove \/ ContinueAny

SpecCartRace == Init /\ [][NextCartRace]_vars

----------------------------------------------------------------------------
(* SpecReads: users place orders, orders are shipped and delivered, users   *)
(* and admins read orders and their tracking info, and an admin deletes     *)
(* users; one request at a time.                                            *)

ReadOps == {"getOrderById", "trackOrder"}

\* GET /api/orders/:id and GET /api/orders/:id/track
ReadRequest(op, userId, orderId) == [op |-> op, userId |-> userId, orderId |-> orderId]

\* DELETE /api/users/:id
UserOp(op, userId, target) == [op |-> op, userId |-> userId, target |-> target]

\* a stored user checks out (protect turns the token of a deleted user away)
Purchase ==
  \E u \in (UserIds \cup OtherUserIds) \cap DOMAIN users : \E p \in ProductIds :
    /\ Len(orders) < MaxOrders
    /\ Serve(OrderRequest(u, << <<Line(p, 1)>> >>, 10, GoodAddress, "card"))

Progress ==
  \E id \in OrderIds : \E st \in {"shipped", "delivered"} :
    Serve(OrderOp("updateOrderStatus", id, st, <<>>))

ReadOrder ==
  \E op \in ReadOps : \E u \in DOMAIN Accounts : \E id \in OrderIds :
    Serve(ReadRequest(op, u, id))

DeleteUser ==
  \E u \in DOMAIN Accounts : \E t \in UserIds \cup OtherUserIds :
    Serve(UserOp("deleteUser", u, t))

NextReads == Purchase \/ Progress \/ ReadOrder \/ DeleteUser

SpecReads == Init /\ [][NextReads]_vars

----------------------------------------------------------------------------
(* SpecSearch: the public product search.  Every request draws its query    *)
(* string and what the external catalog service does with the lookup; an    *)
(* admin renames a product between searches.                                *)

\* the catalog service does not answer within API_TIMEOUT
NoReply == [kind |-> "timeout", status |-> 0, data |-> <<>>]

\* it answers with a status and a body (<<>>: no body)
Reply(status, data) == [kind |-> "response", status |-> status, data |-> data]

\* an entry of the body's products
Entry(code, name) == <<[code |-> code, product_name |-> name]>>

\* a body whose products field is an array of entries (<<>>: a null entry)
Listing(items) == <<[products |-> <<[isArray |-> TRUE, items |-> items]>>]>>

\* a body whose products field is no array
NoListing == <<[products |-> <<[isArray |-> FALSE, items |-> <<>>]>>]>>

\* a body without products
NoProducts == <<[products |-> <<>>]>>

SoyMilk == Entry("0001", "Soy Milk")
OatMilk == Entry("0002", "Oat Milk")

ExternalReplies ==
  {NoReply, Reply(500, <<>>), Reply(404, Listing(<<SoyMilk>>)),
   Reply(200, <<>>), Reply(200, NoProducts), Reply(200, NoListing),
   Reply(200, Listing(<<SoyMilk, <<>> >>)), Reply(200, Listing(<<>>)),
   Reply(200, Listing(<<SoyMilk>>)),
   Reply(200, Listing(<<SoyMilk, Entry("0003", ""), OatMilk>>))}

\* GET /api/products/search?q=&category=&limit=&includeExternal= ("" and <<>>:
\* the parameter is absent)
SearchRequest(q, category, limit, includeExternal, reply) ==
  [op |-> "searchProducts", userId |-> "", q |-> q, category |-> category,
   limit |-> limit, includeExternal |-> includeExternal, reply |-> reply]

\* terms that pass the validation, and terms that do not
LongTerms == {<<"M", "I", "L", "K">>, <<" ", "m", "i", "l", "k", " ">>, <<"z", "z">>}
ShortTerms == {<<>>, <<"m">>, <<" ", "m", " ">>}
SearchTerms == LongTerms \cup ShortTerms

SearchLimits ==
  {<<>>, <<"0">>, <<"1">>, <<"2">>, <<"-", "1">>, <<"5", "1">>, <<"x">>}

\* searches of the whole catalog: every answer of the service to the
\* requests that can reach it, every limit to all terms
SearchRequests ==
  {SearchRequest(q, "", n, "true", reply) :
     q \in LongTerms, n \in {<<>>, <<"1">>, <<"2">>}, reply \in ExternalReplies}
  \cup
  {SearchRequest(q, "", n, e, NoReply) :
     q \in SearchTerms, n \in SearchLimits, e \in {"", "true", "false"}}

\* searches within a category
CategoryRequests ==
  {SearchRequest(q, c, n, e, Reply(200, Listing(<<SoyMilk>>))) :
     q \in {<<"M", "I", "L", "K">>, <<" ", "m", " ">>},
     c \in {"All", "Dairy", "Farm Products"},
     n \in {<<>>, <<"2">>}, e \in {"", "true"}}

Search == \E req \in SearchRequests : Serve(req)

SearchCategory == \E req \in CategoryRequests : Serve(req)

Relabel == Serve(ProductOp("updateProduct", "p2", "Goat Milk", 9, <<>>))

NextSearch == Search \/ SearchCategory \/ Relabel

SpecSearch == Init /\ [][NextSearch]_vars

----------------------------------------------------------------------------
(* SpecStock: everything that may touch the stock short of product          *)
(* administration, one request at a time: orders of one line whose quantity *)
(* is whatever the body carries, the cart routes, status changes and        *)
(* payments.                                                                *)

\* the quantities a body may carry: validateOrder does not look at them
BodyQuantities == (0 - 1)..MaxQty

\* no stock has left the range the model follows
StockInRange == \A p \in DOMAIN products : products[p].stock <= MaxStock

StockOrder ==
  \E u \in UserIds : \E p \in ProductIds : \E q \in BodyQuantities :
    /\ Len(orders) < MaxOrders /\ StockInRange
    /\ Serve(OrderRequest(u, << <<Line(p, q)>> >>, 10, GoodAddress, "card"))

StockCart ==
  \E op \in {"addToCart", "updateCartItem", "removeFromCart", "clearCart"} :
    \E u \in UserIds : Serve(CartRequest(op, u, "p1", 1))

StockStatus ==
  \E id \in OrderIds : \E st \in {"cancelled", "delivered"} :
    Serve(OrderOp("updateOrderStatus", id, st, <<>>))

StockPaid == \E id \in OrderIds : Serve(OrderOp("updateOrderToPaid", id, "", Payer))

NextStock == StockOrder \/ StockCart \/ StockStatus \/ StockPaid

SpecStock == Init /\ [][NextStock]_vars

----------------------------------------------------------------------------
(* Claims about createOrder *)

IsOrder(f) == f.req.op = "createOrder"

\* the request passes validateOrder and the handler's own checks (lines 38-95)
OrderAccepted(req) == createOrderStart(NoDB, Accept(req)).l.pc = "findProduct"

OrderItemsOf(req) == OptOr(req.items, req.products)[1]

RefOf(item) == StrOr(item.product, item.productId)

\* total quantity the lines of `items` request of reference p
RECURSIVE Requested(_, _)
Requested(items, p) ==
  IF items = <<>> THEN 0
  ELSE (IF RefOf(Head(items)) = p THEN Head(items).quantity ELSE 0)
       + Requested(Tail(items), p)

\* units of product p in the lines of all persisted orders
RECURSIVE SoldIn(_, _)
SoldIn(os, p) ==
  IF os = <<>> THEN 0 ELSE LineQty(Head(os).products, p) + SoldIn(Tail(os), p)

Sold(p) == SoldIn(orders, p)

\* some line of the request asks more of a stored product than db has of it
SomeLineShort(req, db) ==
  \E k \in 1..Len(OrderItemsOf(req)) :
    LET item == OrderItemsOf(req)[k]
    IN /\ RefOf(item) \in DOMAIN db.products
       /\ db.products[RefOf(item)].stock < item.quantity

\* every stored product has at least the total the request asks of it
AllInStock(req, db) ==
  \A p \in DOMAIN db.products :
    Requested(OrderItemsOf(req), p) <= db.products[p].stock

\* C1: a createOrder request with a line whose quantity exceeds the current
\* stock of its product fails with InsufficientStock and leaves the stock of
\* every product as it was before the call.
C1_AllOrNothing ==
  (IsOrder(last) /\ OrderAccepted(last.req)
     /\ SomeLineShort(last.req, last.before))
  => (last.kind = "InsufficientStock" /\ products = last.before.products)

\* every line names a product and has a quantity of at least 1 (a CartLine)
LinesWellFormed(req) ==
  \A k \in 1..Len(OrderItemsOf(req)) :
    OrderItemsOf(req)[k].quantity >= 1 /\ RefOf(OrderItemsOf(req)[k]) # ""

\* a valid request as the request validation defines it: validateOrder and
\* the handler's checks pass (items, totalAmount, address, a paymentMethod)
ValidOrderRequest(f) ==
  IsOrder(f) /\ OrderAccepted(f.req) /\ LinesWellFormed(f.req)

OrderGoesThrough ==
  /\ last.status = 201
  /\ \A p \in ProductIds :
       products[p].stock
         = last.before.products[p].stock - Requested(OrderItemsOf(last.req), p)
  /\ getCart(DB, last.req.userId) = <<>>

C3_StockLedger ==
  \A p \in ProductIds : initStock[p] - products[p].stock = Sold(p)

\* C4: once the concurrent createOrder requests have completed, no decrement
\* is lost (the stock taken equals the units in the orders of the requests
\* that succeeded) and no more is sold than there was.
C4_NoLostDecrement ==
  Quiescent =>
    \A p \in ProductIds :
      /\ initStock[p] - products[p].stock = Sold(p)
      /\ Sold(p) <= initStock[p]

----------------------------------------------------------------------------
(* Claims about the cart store *)

CartsOf(userId) == {k \in 1..Len(carts) : carts[k].userId = userId}

\* C5: the cart collection holds at most one cart of an identity.
C5_OneCartPerIdentity ==
  \A u \in Identities : Cardinality(CartsOf(u)) <= 1

Caller(f) == f.req.userId

\* the lines the identity of request f had before the call, and has now
LinesBefore(f) == getCart(f.before, f.req.userId)
LinesNow(f) == getCart(DB, f.req.userId)

C7_AddChecksStock ==
  (last.req.op \in AddOps /\ last.req.productId \in DOMAIN last.before.products)
  => LET p == last.req.productId
         existing == LineQty(LinesBefore(last), p)
     IN /\ (last.before.products[p].stock < existing + NumOr(last.req.quantity, 1))
             => (last.kind = "InsufficientStock" /\ carts = last.before.carts)
        /\ last.status = 200 => LineQty(LinesNow(last), p) <= products[p].stock

\* C8: whenever setItemQuantity(identity, p, q) succeeds, the line of p in the
\* cart of the identity has quantity exactly q and every other line of the
\* cart is as it was.
C8_UpdateSetsExactly ==
  (last.req.op \in UpdateOps /\ last.status = 200)
  => LET old == LinesBefore(last)
         new == LinesNow(last)
     IN /\ Len(new) = Len(old)
        /\ LineCount(new, last.req.productId) = 1
        /\ \A k \in 1..Len(new) :
             /\ new[k].productId = old[k].productId
             /\ new[k].quantity = IF new[k].productId = last.req.productId
                                  THEN last.req.quantity ELSE old[k].quantity

\* a line of quantity 2 was set to 1 in a guest cart of two lines
C8_Witness ==
  /\ last.req.op = "updateGuestCartItem" /\ last.status = 200
  /\ Len(LinesBefore(last)) = 2
  /\ LineQty(LinesBefore(last), last.req.productId) = 2
  /\ last.req.quantity = 1

HasLine(db, userId, productId) ==
  findOne(db, userId) # 0 /\ LineCount(getCart(db, userId), productId) > 0

\* the outcome the claim gives setItemQuantity(identity, p, q)
ClaimedUpdateOutcome(req, db) ==
  IF req.quantity < 1 THEN "InvalidArgument"
  ELSE IF ~HasLine(db, req.userId, req.productId) THEN "NotFound"
  ELSE IF req.quantity > db.products[req.productId].stock THEN "InsufficientStock"
  ELSE "Success"

\* C9 as stated: the outcome of setItemQuantity(identity, p, q) is decided in
\* the order: q < 1, InvalidArgument; no cart or no line of p, NotFound; q
\* above p's stock, InsufficientStock; and every failure leaves all carts
\* unchanged.
C9_Original ==
  (last.req.op \in UpdateOps /\ last.req.productId # "")
  => /\ last.kind = ClaimedUpdateOutcome(last.req, last.before)
     /\ last.status # 200 => carts = last.before.carts

\* the outcome the handlers give it
UpdateOutcome(req, db) ==
  IF req.quantity < 1 THEN "InvalidArgument"
  ELSE IF req.productId \notin DOMAIN db.products THEN "NotFound"
  ELSE IF req.quantity > db.products[req.productId].stock THEN "InsufficientStock"
  ELSE IF ~HasLine(db, req.userId, req.productId) THEN "NotFound"
  ELSE "Success"

\* C9 amended: the outcome of setItemQuantity(identity, p, q) is decided in
\* the order: q < 1, InvalidArgument; p resolves to no stored product,
\* NotFound; q above p's stock, InsufficientStock; no cart of the identity or
\* no line of p in it, NotFound; and every failure leaves all carts unchanged.
C9_UpdateErrorOrder ==
  (last.req.op \in UpdateOps /\ last.req.productId # "")
  => /\ last.kind = UpdateOutcome(last.req, last.before)
     /\ last.status # 200 => carts = last.before.carts

\* a quantity above the stock was asked for a product the cart of the
\* identity has no line of, and refused as InsufficientStock
C9_Witness ==
  /\ last.req.op \in UpdateOps /\ last.kind = "InsufficientStock"
  /\ findOne(last.before, Caller(last)) # 0
  /\ ~HasLine(last.before, Caller(last), last.req.productId)
  /\ carts = last.before.carts

\* C10: removeItem of a product the identity has no line of (in a cart with
\* other lines, in an empty cart, or with no cart record at all) reports
\* success and changes no cart.
C10_RemoveAbsentIsNoOp ==
  (/\ last.req.op \in RemoveOps /\ last.req.productId \in Refs
   /\ LineCount(LinesBefore(last), last.req.productId) = 0)
  => (last.status = 200 /\ carts = last.before.carts)

\* C11: clear(identity) always reports success, whether the identity has a
\* cart with lines, an empty cart or no cart record; afterwards get(identity)
\* returns no line; and a clear of an identity that has no line (as after a
\* first clear) changes nothing.
C11_ClearAlwaysSucceeds ==
  (last.req.op \in ClearOps)
  => /\ last.status = 200
     /\ LinesNow(last) = <<>>
     /\ LinesBefore(last) = <<>> => carts = last.before.carts

\* a guest cart of two lines was cleared
C11_Witness ==
  /\ last.req.op = "clearGuestCart" /\ last.status = 200
  /\ Len(LinesBefore(last)) = 2
  /\ LinesNow(last) = <<>>

\* the cart records of an identity
CartsHeldBy(userId) == SelectSeq(carts, LAMBDA c : c.userId = userId)

\* C12: every cart operation and every createOrder served for an identity
\* leaves the carts of every other identity as they were; a guest cart and a
\* user cart holding the same product do not affect each other.
C12_CartIsolation ==
  [][\A b \in Identities :
       b # last'.req.userId => CartsHeldBy(b)' = CartsHeldBy(b)]_vars

\* the user checked out and their cart was emptied while the guest's cart,
\* holding the same product, is what it was
C12_Witness ==
  /\ last.req.op = "createOrder" /\ last.status = 201
  /\ LineQty(getCart(last.before, "u1"), "p1") > 0
  /\ LineQty(getCart(last.before, "g1"), "p1") > 0
  /\ getCart(DB, "u1") = <<>>
  /\ getCart(DB, "g1") = getCart(last.before, "g1")

\* the list of lines is absent or empty, whichever of items and products is
\* taken first
ItemListEmpty(req) ==
  \E list \in {OptOr(req.items, req.products), OptOr(req.products, req.items)} :
    list = <<>> \/ list[1] = <<>>

\* the address is absent or, after the aliases address|street and
\* pincode|zipCode, lacks one of street, city, state, zipCode, whichever of
\* shippingAddress and address is taken first
AddressLacking(req) ==
  \E a \in {OptOr(req.shippingAddress, req.address),
             OptOr(req.address, req.shippingAddress)} :
    \/ a = <<>>
    \/ (a[1].street = "" /\ a[1].address = "") \/ a[1].city = ""
    \/ a[1].state = "" \/ (a[1].zipCode = "" /\ a[1].pincode = "")

Malformed(req) ==
  \/ ItemListEmpty(req) \/ req.totalAmount <= 0
  \/ AddressLacking(req) \/ req.paymentMethod = ""

\* C13: createOrder is rejected with InvalidArgument whenever the item list
\* is empty, totalAmount is not greater than 0, the shipping address lacks
\* one of street, city, state, zipCode after the aliases, or paymentMethod is
\* absent; the rejection changes no stock, creates no order, clears no cart.
C13_MalformedRejected ==
  (IsOrder(last) /\ Malformed(last.req))
  => /\ last.kind = "InvalidArgument"
     /\ products = last.before.products
     /\ orders = last.before.orders
     /\ carts = last.before.carts

\* a request without a payment method was rejected while the caller had a
\* cart with lines
C13_Witness ==
  /\ IsOrder(last) /\ last.req.paymentMethod = ""
  /\ ~ItemListEmpty(last.req) /\ ~AddressLacking(last.req)
  /\ last.kind = "InvalidArgument"
  /\ getCart(DB, last.req.userId) # <<>>

\* C14: a createOrder call that fails at the reservation step persists no
\* order and leaves the caller's cart as it was: the orders and the lines of
\* the caller's cart are the same after the failed call as before it.
C14_FailedReservationKeepsCart ==
  (IsOrder(last) /\ last.kind = "InsufficientStock")
  => /\ orders = last.before.orders
     /\ carts = last.before.carts
     /\ LinesNow(last) = LinesBefore(last)

\* the second line of an order was refused after the first was reserved,
\* while the caller had a cart with lines
C14_Witness ==
  /\ IsOrder(last) /\ last.kind = "InsufficientStock"
  /\ products # last.before.products
  /\ LinesBefore(last) # <<>>
  /\ LinesNow(last) = LinesBefore(last)

\* line k of the request names no stored product
Unresolved(req, db, k) == RefOf(OrderItemsOf(req)[k]) \notin DOMAIN db.products

\* the order the last call persisted
NewOrder == orders[Len(orders)]

\* C15: a line whose reference resolves to no stored product never makes
\* createOrder fail: a valid request whose resolved lines are in stock
\* succeeds whatever unresolved lines it carries; each such line is recorded
\* with the name, price and image the client declared; and the stock of every
\* product changes by its resolved lines only.
C15_PassThrough ==
  (/\ ValidOrderRequest(last) /\ last.req.paymentMethod \in PaymentMethods
   /\ AllInStock(last.req, last.before)
   /\ \E k \in 1..Len(OrderItemsOf(last.req)) :
        Unresolved(last.req, last.before, k))
  => /\ last.status = 201
     /\ Len(orders) = Len(last.before.orders) + 1
     /\ \A k \in 1..Len(OrderItemsOf(last.req)) :
          Unresolved(last.req, last.before, k)
          => LET item == OrderItemsOf(last.req)[k]
                 line == NewOrder.products[k]
             IN /\ line.productId = RefOf(item)
                /\ line.quantity = item.quantity
                /\ item.name # "" => line.name = item.name
                /\ line.price = item.price
                /\ line.image = item.image
     /\ \A p \in ProductIds :
          products[p].stock
            = last.before.products[p].stock - Requested(OrderItemsOf(last.req), p)

\* an order of one unresolved line that declares its name, price and image
\* was persisted
C15_Witness ==
  /\ IsOrder(last) /\ last.status = 201
  /\ Unresolved(last.req, last.before, 1)
  /\ OrderItemsOf(last.req)[1].name = "Bargain"
  /\ NewOrder.products[1].name = "Bargain"
  /\ NewOrder.products[1].price = 1

\* C16: every order line whose reference resolves to a stored product has
\* the name and the price that product had when the order was created,
\* whatever name or price the request declared for the line.
C16_FrozenCopies ==
  (IsOrder(last) /\ last.status = 201)
  => \A k \in 1..Len(OrderItemsOf(last.req)) :
       ~Unresolved(last.req, last.before, k)
       => LET product == last.before.products[RefOf(OrderItemsOf(last.req)[k])]
          IN /\ NewOrder.products[k].name = product.name
             /\ NewOrder.products[k].price = product.price

\* what an order is a receipt of
Receipt(o) ==
  [userId |-> o.userId, products |-> o.products, totalAmount |-> o.totalAmount,
   address |-> o.address, paymentMethod |-> o.paymentMethod]

\* C17: once an order is created, no later operation (product edits and
\* deletions, cart operations, other createOrder calls, setStatus, markPaid,
\* deliver) changes its owner, lines, totalAmount, address or paymentMethod,
\* and no operation deletes it.
C17_ImmutableReceipts ==
  [][/\ Len(orders') >= Len(orders)
     /\ \A k \in 1..Len(orders) : Receipt(orders'[k]) = Receipt(orders[k])]_vars

\* a second order of a product was placed after the first was paid and
\* delivered and the product renamed and repriced: the first order's line is
\* what it was, the second has the new name
C17_Witness ==
  /\ Len(orders) = 2
  /\ orders[1].isPaid /\ orders[1].status = "delivered"
  /\ orders[1].products[1].productId = "p1"
  /\ orders[1].products[1].name = "Organic Milk"
  /\ orders[1].products[1].price = 5
  /\ orders[2].products[1].productId = "p1"
  /\ orders[2].products[1].name = "Goat Milk"
  /\ last.req.op = "createOrder" /\ last.status = 201

IsSetStatus(f, st) ==
  /\ f.req.op = "updateOrderStatus" /\ f.status = 200 /\ f.req.status = st

\* C18: setStatus(order, 'delivered') sets isDelivered and a deliveredAt, and
\* applied to an order that is already delivered it leaves isDelivered and
\* deliveredAt with the values they had.
C18_DeliveredIdempotent ==
  IsSetStatus(last, "delivered")
  => LET old == last.before.orders[last.req.orderId]
         new == orders[last.req.orderId]
     IN /\ new.isDelivered /\ new.deliveredAt # <<>>
        /\ (old.status = "delivered" /\ old.isDelivered)
             => new.deliveredAt = old.deliveredAt

\* C19: delivered and cancelled are terminal, so a setStatus call on an order
\* in one of them does not change its status, and no setStatus call moves an
\* order from shipped or delivered back to pending.
C19_StatusForwardOnly ==
  (last.req.op = "updateOrderStatus" /\ last.status = 200)
  => LET old == last.before.orders[last.req.orderId].status
         new == orders[last.req.orderId].status
     IN /\ old \in {"delivered", "cancelled"} => new = old
        /\ old \in {"shipped", "delivered"} => new # "pending"

\* C20: markPaid(order, paymentResult) on an existing order, whatever its
\* status, sets isPaid and paidAt and leaves status, isDelivered and
\* deliveredAt as they were.
C20_MarkPaid ==
  (/\ last.req.op = "updateOrderToPaid"
   /\ last.req.orderId \in 1..Len(last.before.orders))
  => LET old == last.before.orders[last.req.orderId]
         new == orders[last.req.orderId]
     IN /\ new.isPaid /\ new.paidAt # <<>>
        /\ new.status = old.status
        /\ new.isDelivered = old.isDelivered
        /\ new.deliveredAt = old.deliveredAt

----------------------------------------------------------------------------
(* Claims about reading orders *)

\* the requester of f is a stored user reading an order that exists
IsRead(f) ==
  /\ f.req.op \in ReadOps
  /\ f.req.userId \in DOMAIN f.before.users
  /\ f.req.orderId \in 1..Len(f.before.orders)

\* the requester of f owns the order or has the admin role
OwnerOrAdmin(f) ==
  \/ f.before.orders[f.req.orderId].userId = f.req.userId
  \/ f.before.users[f.req.userId].role = "admin"

\* C21: reading an order (getOrderById) or its tracking info (trackOrder)
\* succeeds only if the requester is the order's owner or has the admin role;
\* any other requester gets Forbidden and no order data.
C21_OrderReadOwnership ==
  IsRead(last)
  => /\ last.status = 200 => OwnerOrAdmin(last)
     /\ ~OwnerOrAdmin(last) => (last.kind = "Forbidden" /\ last.data = <<>>)

----------------------------------------------------------------------------
(* Claims about the product search *)

IsSearch(f) == f.req.op = "searchProducts"

\* the search of f got past the validation of its term
Searched(f) == IsSearch(f) /\ Len(trim(f.req.q)) >= 2

\* C22: search fails with InvalidArgument whenever the trimmed term has fewer
\* than 2 characters, whatever category, limit and includeExternal are, and
\* then issues neither a local query nor an external lookup.
C22_ShortTermRejected ==
  (IsSearch(last) /\ Len(trim(last.req.q)) < 2)
  => (last.status = 400 /\ last.kind = "InvalidArgument" /\ last.calls = {})

\* a term of one letter between blanks was refused though the request asked
\* for external results and gave a limit and a category
C22_Witness ==
  /\ IsSearch(last) /\ last.req.q = <<" ", "m", " ">>
  /\ last.req.includeExternal = "true" /\ last.req.limit = <<"2">>
  /\ last.req.category = "Dairy"
  /\ last.kind = "InvalidArgument"

\* the external lookup of f timed out, was answered with a status outside 2xx
\* or with a malformed body (no body, no products, products that are no
\* array, a null entry)
LookupFailed(f) ==
  LET reply == f.req.reply
  IN \/ reply.kind = "timeout"
     \/ reply.status \notin 200..299
     \/ reply.data = <<>>
     \/ reply.data[1].products = <<>>
     \/ ~reply.data[1].products[1].isArray
     \/ \E k \in 1..Len(reply.data[1].products[1].items) :
          reply.data[1].products[1].items[k] = <<>>

\* the stored products whose name holds the term of f, in its category
LocalMatches(f) ==
  {p \in DOMAIN f.before.products :
     /\ regexMatch(Text(f.before.products[p].name), trim(f.req.q))
     /\ (f.req.category \in {"", "All"} \/ categoryOf(p) = f.req.category)}

\* C23: whenever the external lookup times out, returns a non-2xx status or
\* returns a malformed payload, the external result set is empty and search
\* still succeeds and returns the local results.
C23_ExternalFailureDegrades ==
  (Searched(last) /\ "fetchExternalProducts" \in last.calls /\ LookupFailed(last))
  => /\ last.status = 200
     /\ last.data[1].externalCount = 0
     /\ {last.data[1].data[k]._id : k \in 1..Len(last.data[1].data)}
          = LocalMatches(last)
     /\ \A k \in 1..Len(last.data[1].data) : last.data[1].data[k].source = "local"

\* the lookup timed out and the search returned its one local match
C23_Witness ==
  /\ Searched(last) /\ "fetchExternalProducts" \in last.calls
  /\ last.req.reply.kind = "timeout"
  /\ last.status = 200 /\ Len(last.data[1].data) = 1
  /\ last.data[1].data[1].name = "Organic Milk"

Smaller(a, b) == IF a < b THEN a ELSE b

\* C24: the returned sequence is the local results (each tagged source=local)
\* followed by the external results (each tagged source=external), truncated
\* to the limit, so no external item precedes a local item; localCount and
\* externalCount are the sizes of the two sets and the total is their sum.
C24_Combination ==
  (Searched(last) /\ last.status = 200)
  => LET body == last.data[1]
         n == Len(body.data)
         limit == pageLimitOf(last.req.limit)
     IN /\ \A i \in 1..n : \A j \in 1..n :
             (i < j /\ body.data[j].source = "local") => body.data[i].source = "local"
        /\ \A k \in 1..n :
             \/ body.data[k].source = "local" /\ body.data[k]._id \in LocalMatches(last)
             \/ body.data[k].source = "external" /\ body.data[k]._id \notin ProductIds
        /\ n = Smaller(body.totalResults, IF limit < 0 THEN 0 ELSE limit)
        /\ Cardinality({k \in 1..n : body.data[k].source = "local"})
             = Smaller(body.localCount, n)
        /\ body.localCount <= Cardinality(LocalMatches(last))
        /\ body.totalResults = body.localCount + body.externalCount

\* one local match and two external ones were cut to the limit of two: the
\* local product, then the first external one
C24_Witness ==
  /\ Searched(last) /\ last.status = 200
  /\ last.data[1].localCount = 1 /\ last.data[1].externalCount = 2
  /\ last.data[1].totalResults = 3
  /\ Len(last.data[1].data) = 2
  /\ last.data[1].data[1].source = "local"
  /\ last.data[1].data[2].source = "external"

C26_EffectiveLimit ==
  (Searched(last) /\ last.status = 200)
  => /\ pageLimitOf(last.req.limit) \in 1..50
     /\ Len(last.data[1].data) <= pageLimitOf(last.req.limit)

----------------------------------------------------------------------------
(* Claims about the stock *)

\* C27: across every sequence of cart operations, createOrder calls (with any
\* item quantities the request may carry, successful or failed), setStatus
\* calls (including to cancelled) and markPaid calls, the stock of each
\* product never increases.
C27_StockNeverIncreases ==
  [][\A p \in DOMAIN products : products'[p].stock <= products[p].stock]_vars

----------------------------------------------------------------------------
(* Claims about the lines of a cart *)

\* the lines of a cart are of pairwise distinct products
DistinctLines(items) ==
  \A i \in 1..Len(items) : \A j \in 1..Len(items) :
    i # j => items[i].productId # items[j].productId

C29_StockNeverNegative == \A p \in DOMAIN products : products[p].stock >= 0

\* two orders placed at the same time, one of them listing the product on two
\* lines, sold more units than there were and left the stock at 0
C29_Witness ==
  /\ Len(orders) = 2 /\ Quiescent
  /\ \E k \in 1..2 : /\ Len(orders[k].products) = 2
                      /\ \A j \in 1..2 : orders[k].products[j].productId = "p1"
  /\ Sold("p1") > initStock["p1"]
  /\ products["p1"].stock = 0

----------------------------------------------------------------------------
(* Claims about delivery *)

\* order k was marked delivered before this step
WasDelivered(k) == k <= Len(orders) /\ orders[k].isDelivered

\* C30: every order whose status is delivered has isDelivered = true and a
\* deliveredAt, whichever of updateOrderStatus and updateOrderToDelivered put
\* it in that status; and isDelivered is false until a step sets the status
\* of the order to delivered.
C30_DeliveredFlags ==
  [][\A k \in 1..Len(orders') :
       /\ orders'[k].status = "delivered"
            => (orders'[k].isDelivered /\ orders'[k].deliveredAt # <<>>)
       /\ (orders'[k].isDelivered /\ ~WasDelivered(k))
            => orders'[k].status = "delivered"]_vars

\* the delivery handler delivered an order that had been shipped, at a time
\* after the start of the clock
C30_Witness ==
  /\ last.req.op = "updateOrderToDelivered" /\ last.status = 200
  /\ last.before.orders[last.req.orderId].status = "shipped"
  /\ ~last.before.orders[last.req.orderId].isDelivered
  /\ orders[last.req.orderId].status = "delivered"
  /\ orders[last.req.orderId].isDelivered
  /\ orders[last.req.orderId].deliveredAt = <<now>> /\ now > 0

====
